---- MODULE Spec2Model ----
(***************************************************************************)
(* Model of the stonks scoring pipeline: scripts/computeScoresToDb.js,     *)
(* scripts/autoRunner.js, scripts/schedule.js, scripts/backfillRange.js,   *)
(* scripts/fetchDailyDataToDb.js, scripts/recomputeScores.js and the       *)
(* SQLite tables they share (db/schema.sql).                               *)
(*                                                                         *)
(* JavaScript numbers are binary floating point.  They are modelled as     *)
(* m * 2^e with a significand of Precision bits (IEEE double: 53), every   *)
(* operation rounded to nearest, ties to even, exponent unbounded (no      *)
(* overflow, no underflow).                                                *)
(***************************************************************************)
EXTENDS Integers, Sequences, FiniteSets, TLC

\* ------------------------------------------------------------------ bounds
Precision == 3      \* significand bits of the modelled floating point
MaxLen == 3         \* longest array given to zScores in SpecZ
MaxVal == 3         \* largest magnitude of an input value in SpecZ

\* ------------------------------------------------- JavaScript number values
\* A value is a number m * 2^e (m odd, or m = 0 and e = 0), null, or NaN.
Num(m, e) == [k |-> "num", m |-> m, e |-> e]
Null == [k |-> "null", m |-> 0, e |-> 0]
NaN == [k |-> "nan", m |-> 0, e |-> 0]
Zero == Num(0, 0)

Abs(x) == IF x < 0 THEN -x ELSE x
Min(a, b) == IF a < b THEN a ELSE b
Max(a, b) == IF a > b THEN a ELSE b
Signed(n, a) == IF n < 0 THEN -a ELSE a

RECURSIVE BitLen(_)
BitLen(n) == IF n = 0 THEN 0 ELSE 1 + BitLen(n \div 2)

RECURSIVE Canon(_, _)
Canon(m, e) ==
  IF m = 0 THEN Zero
  ELSE IF m % 2 = 0 THEN Canon(m \div 2, e + 1)
  ELSE Num(m, e)

\* The integer nearest to a/p (a >= 0), ties to even: q is the quotient and
\* r2 twice the remainder.
HalfEven(q, r2, p) == IF r2 > p \/ (r2 = p /\ q % 2 = 1) THEN q + 1 ELSE q
NearestAbs(a, p) == HalfEven(a \div p, 2 * (a % p), p)

\* n * 2^e with the k lowest bits of n rounded away.
RoundAt(n, e, k) ==
  IF k <= 0 THEN Canon(n, e)
  ELSE Canon(Signed(n, NearestAbs(Abs(n), 2^k)), e + k)

\* n * 2^e rounded to Precision significant bits, nearest, ties to even.
Round(n, e) == RoundAt(n, e, BitLen(Abs(n)) - Precision)

\* An integer literal or an array length as a number.
F(n) == Round(n, 0)

IsNum(x) == x.k = "num"
\* Position of the leading bit of a non-zero number.
Lead(x) == x.e + BitLen(Abs(x.m)) - 1
\* null is 0 in arithmetic (ToNumber): Null carries m = 0 and e = 0, so the
\* operations below read the fields of a null operand as those of 0.
ToNum(x) == IF x.k = "null" THEN Zero ELSE x

\* a + b with both brought to exponent e
AlignAdd(a, b, e) == Round(a.m * 2^(a.e - e) + b.m * 2^(b.e - e), e)

AddNum(a, b) ==
  IF a.m = 0 THEN ToNum(b)
  ELSE IF b.m = 0 THEN a
  ELSE IF Lead(a) - Lead(b) > Precision + 2 THEN a
  ELSE IF Lead(b) - Lead(a) > Precision + 2 THEN b
  ELSE AlignAdd(a, b, Min(a.e, b.e))

\* x + y
Add(x, y) == IF y.k = "nan" \/ x.k = "nan" THEN NaN ELSE AddNum(x, y)

Neg(x) == IF x.k = "nan" THEN NaN ELSE Num(-x.m, x.e)

\* x - y
Sub(x, y) == Add(x, Neg(y))

\* x * y
Mul(x, y) ==
  IF y.k = "nan" \/ x.k = "nan" THEN NaN ELSE Round(x.m * y.m, x.e + y.e)

\* (n / d) * 2^e for integers n and d > 0, correctly rounded: a is |n|
\* shifted left by s bits, enough for the quotient to carry a guard bit and
\* a sticky bit.
RatOf(n, d, e, s, a) ==
  Round(Signed(n, 2 * (a \div d) + (IF a % d = 0 THEN 0 ELSE 1)), e - s - 1)
RatAt(n, d, e, s) == RatOf(n, d, e, s, Abs(n) * 2^s)
RoundRat(n, d, e) == RatAt(n, d, e, Precision + 2 + BitLen(d))

\* The decimal literal n/d (0.15 is Lit(15, 100)).
Lit(n, d) == RoundRat(n, d, 0)

\* x / y; a division by zero gives a non-finite value (NaN or an infinity),
\* modelled as NaN.
Div(x, y) ==
  IF y.k = "nan" \/ x.k = "nan" \/ y.m = 0 THEN NaN
  ELSE RoundRat(Signed(y.m, x.m), Abs(y.m), x.e - y.e)

RECURSIVE ISqrt(_)
ISqrt(n) ==
  IF n < 2 THEN n
  ELSE LET s == 2 * ISqrt(n \div 4)
       IN IF (s + 1) * (s + 1) <= n THEN s + 1 ELSE s

\* sqrt(x) from r = floor(sqrt(n)), n = x.m * 2^s, x.e - s even
SqrtOf(x, s, n, r) ==
  Round(2 * r + (IF r * r = n THEN 0 ELSE 1), ((x.e - s) \div 2) - 1)
SqrtN(x, s, n) == SqrtOf(x, s, n, ISqrt(n))
SqrtS(x, s) == SqrtN(x, s, x.m * 2^s)
\* The shift s: at least 2 * Precision + 2 bits, and x.e - s even.
SqrtShift(x) == IF x.e % 2 = 0 THEN 2 * Precision + 2 ELSE 2 * Precision + 3

\* Math.sqrt(x)
Sqrt(x) ==
  IF x.k = "nan" \/ x.m < 0 THEN NaN
  ELSE IF x.m = 0 THEN Zero
  ELSE SqrtS(x, SqrtShift(x))

\* Truthiness of a number value: null, NaN and 0 are falsy.
Truthy(x) == x.k = "num" /\ x.m # 0
\* x || 0
OrZero(x) == IF Truthy(x) THEN x ELSE Zero
\* x > 0
Gt0(x) == x.k = "num" /\ x.m > 0

\* ----------------------------------------------------------------- zScores
RECURSIVE SumTo(_, _)
\* arr.reduce((a,b)=>a+b,0) over the first k elements
SumTo(arr, k) == IF k = 0 THEN Zero ELSE Add(SumTo(arr, k - 1), arr[k])

\* Math.pow(x, 2)
Sq(x) == Mul(x, x)

RECURSIVE SumSqTo(_, _, _)
\* arr.reduce((a,b)=>a+Math.pow(b-mean,2),0) over the first k elements
SumSqTo(arr, mean, k) ==
  IF k = 0 THEN Zero
  ELSE Add(SumSqTo(arr, mean, k - 1), Sq(Sub(arr[k], mean)))

Mean(arr) == Div(SumTo(arr, Len(arr)), F(Len(arr)))
Variance(arr, mean) == Div(SumSqTo(arr, mean, Len(arr)), F(Len(arr)))

RECURSIVE ZerosTo(_)
\* arr.map(()=>0) over the first k elements
ZerosTo(k) == IF k = 0 THEN <<>> ELSE Append(ZerosTo(k - 1), Zero)

RECURSIVE ScaledTo(_, _, _, _)
\* arr.map(v=>(v-mean)/std) over the first k elements
ScaledTo(arr, mean, std, k) ==
  IF k = 0 THEN <<>>
  ELSE Append(ScaledTo(arr, mean, std, k - 1), Div(Sub(arr[k], mean), std))

\* return std===0 ? arr.map(()=>0) : arr.map(v => (v-mean)/std)
zScoresStd(arr, mean, std) ==
  IF std = Zero THEN ZerosTo(Len(arr)) ELSE ScaledTo(arr, mean, std, Len(arr))
zScoresMean(arr, mean) == zScoresStd(arr, mean, Sqrt(Variance(arr, mean)))

zScores(arr) == IF Len(arr) = 0 THEN <<>> ELSE zScoresMean(arr, Mean(arr))

\* ------------------------------------------------- computeScoresToDb.js
\* The weights the script starts from (0.15, 0.10, ...).
DefaultWeights ==
  [momentum |-> Lit(15, 100), volatility |-> Lit(10, 100), volume |-> Lit(8, 100),
   vwap |-> Lit(7, 100), pe |-> Lit(10, 100), pb |-> Lit(10, 100),
   de |-> Lit(5, 100), fcf_yield |-> Lit(7, 100), peg |-> Lit(3, 100),
   ps |-> Lit(5, 100), roe |-> Lit(12, 100), dividend_yield |-> Lit(8, 100)]

WeightKeys == DOMAIN DefaultWeights

\* A key the parsed object does not have.
Absent == [k |-> "absent", m |-> 0, e |-> 0]

\* config/weights.json: unreadable or unparsable (ok = FALSE), or an object,
\* given by what it holds under each key the script reads.
NoWeightsFile == [ok |-> FALSE, map |-> [k \in WeightKeys |-> Absent]]
WeightsFile(map) == [ok |-> TRUE, map |-> map]

\* weights = { ...weights, ...parsed }, or the defaults when the read throws.
LoadWeights(file) ==
  [k \in WeightKeys |->
     IF file.ok /\ file.map[k] # Absent THEN file.map[k] ELSE DefaultWeights[k]]

\* weights.k
Weight(weights, k) == weights[k]

\* getFundamentals(t) || {} : the fields of an absent row are undefined (null).
NoFundamentals ==
  [has |-> FALSE, net_income |-> Null, shareholders_equity |-> Null,
   total_liabilities |-> Null, revenue |-> Null, op_cash |-> Null,
   capex |-> Null, dividends |-> Null, shares_outstanding |-> Null]

\* (price - base)/base
Change(price, base) == Div(Sub(price, base), base)
\* (v!=null && shares>0) ? (v / shares) : null
PerShare(v, shares) == IF v # Null /\ Gt0(shares) THEN Div(v, shares) ELSE Null
\* (x && x!==0) ? price/x : null
Ratio(price, x) == IF Truthy(x) /\ x # Zero THEN Div(price, x) ELSE Null
\* (v!=null && f.shareholders_equity) ? (v / f.shareholders_equity) : null
PerEquity(v, equity) == IF v # Null /\ Truthy(equity) THEN Div(v, equity) ELSE Null
\* (... && shares>0 && price!==0) ? (v/shares)/price : null
Yield(v, shares, price) ==
  IF Gt0(shares) /\ price # Zero THEN Div(Div(v, shares), price) ELSE Null

\* The ratios, from price = bar.close || 0 and shares =
\* f.shares_outstanding || null.
Ratios(f, price, shares) ==
  [pe |-> Ratio(price, PerShare(f.net_income, shares)),
   pb |-> Ratio(price, PerShare(f.shareholders_equity, shares)),
   de |-> PerEquity(f.total_liabilities, f.shareholders_equity),
   fcf_yield |-> IF f.op_cash # Null /\ f.capex # Null
                 THEN Yield(Sub(f.op_cash, f.capex), shares, price) ELSE Null,
   peg |-> Null,
   ps |-> Ratio(price, PerShare(f.revenue, shares)),
   roe |-> PerEquity(f.net_income, f.shareholders_equity),
   dividend_yield |-> IF f.dividends # Null
                      THEN Yield(f.dividends, shares, price) ELSE Null]

\* The technical factors of a bar.
Technicals(bar, prevClose, price) ==
  [momentum |-> IF Truthy(prevClose) THEN Change(price, prevClose)
                ELSE IF Gt0(OrZero(bar.open)) THEN Change(price, bar.open)
                ELSE Zero,
   volatility |-> IF Truthy(OrZero(bar.open))
                  THEN Div(Sub(bar.high, bar.low), bar.open) ELSE Zero,
   volume |-> OrZero(bar.volume),
   vwap_dev |-> IF Truthy(bar.vwap) /\ bar.vwap # Zero
                THEN Change(price, bar.vwap) ELSE Zero]

\* return { momentum, volatility, volume, vwap_dev, pe, ... }
Merge(t, r) ==
  [momentum |-> t.momentum, volatility |-> t.volatility, volume |-> t.volume,
   vwap_dev |-> t.vwap_dev, pe |-> r.pe, pb |-> r.pb, de |-> r.de,
   fcf_yield |-> r.fcf_yield, peg |-> r.peg, ps |-> r.ps, roe |-> r.roe,
   dividend_yield |-> r.dividend_yield]

\* bar: the daily_bars row; prevClose: close of the row 7 days earlier (null
\* when there is none); f: the fundamentals_latest row or NoFundamentals.
computeMetricsForTicker(bar, prevClose, f) ==
  Merge(Technicals(bar, prevClose, OrZero(bar.close)),
        Ratios(f, OrZero(bar.close),
               IF Truthy(f.shares_outstanding) THEN f.shares_outstanding ELSE Null))

\* A faulty variant of the inversion: 1/m.pe without the test.
InvUnguarded(x) == Div(F(1), x)

\* (m.pe && m.pe!==0) ? 1/m.pe : 0
Inv(x) == IF Truthy(x) /\ x # Zero THEN Div(F(1), x) ELSE Zero

\* The factors in the order of the keys of arrays and of the terms of comp:
\* the field of the metrics, whether its inverse is taken, the key of its
\* weight.
Factors ==
  << <<"momentum", FALSE, "momentum">>, <<"volatility", FALSE, "volatility">>,
     <<"volume", FALSE, "volume">>, <<"vwap_dev", FALSE, "vwap">>,
     <<"pe", TRUE, "pe">>, <<"pb", TRUE, "pb">>, <<"de", TRUE, "de">>,
     <<"fcf_yield", FALSE, "fcf_yield">>, <<"peg", TRUE, "peg">>,
     <<"ps", TRUE, "ps">>, <<"roe", FALSE, "roe">>,
     <<"dividend_yield", FALSE, "dividend_yield">> >>

\* m=>m.key || 0, or m=>(m.key && m.key!==0) ? 1/m.key : 0
ArrayValue(v, inverted) == IF inverted THEN Inv(v) ELSE OrZero(v)

\* metrics.map(...) of factor t over the first k elements
RECURSIVE ColumnTo(_, _, _)
ColumnTo(metrics, t, k) ==
  IF k = 0 THEN <<>>
  ELSE Append(ColumnTo(metrics, t, k - 1),
              ArrayValue(metrics[k][Factors[t][1]], Factors[t][2]))

\* The first t of the per-factor arrays handed to zScores.
RECURSIVE ArraysTo(_, _)
ArraysTo(metrics, t) ==
  IF t = 0 THEN <<>>
  ELSE Append(ArraysTo(metrics, t - 1), ColumnTo(metrics, t, Len(metrics)))

Arrays(metrics) == ArraysTo(metrics, Len(Factors))

\* for (const k of Object.keys(arrays)) z[k]=zScores(arrays[k]), the first t
RECURSIVE ZTo(_, _)
ZTo(arrays, t) ==
  IF t = 0 THEN <<>> ELSE Append(ZTo(arrays, t - 1), zScores(arrays[t]))

ZOf(arrays) == ZTo(arrays, Len(arrays))

\* (z.k[i]||0)*(weights.k||0) for factor t
Term(z, weights, i, t) ==
  Mul(OrZero(z[t][i]), OrZero(Weight(weights, Factors[t][3])))

RECURSIVE CompTo(_, _, _, _)
CompTo(z, weights, i, t) ==
  IF t = 1 THEN Term(z, weights, i, 1)
  ELSE Add(CompTo(z, weights, i, t - 1), Term(z, weights, i, t))

\* A faulty variant of comp: the z-scores of the first ticker are used for
\* every ticker.
compFirst(z, weights, i) == CompTo(z, weights, 1, Len(Factors))

\* const comp = ... for ticker i
comp(z, weights, i) == CompTo(z, weights, i, Len(Factors))

\* A JavaScript number bound to a statement parameter: SQLite stores NaN as NULL.
SqlBind(x) == IF x = NaN THEN Null ELSE x

\* A faulty variant of the parameter list: one argument short, so that the
\* last parameter (composite) receives metrics[i].peg.
UpsertParamsShifted(date, bar, m, c) ==
  [date |-> date, ticker |-> bar.ticker,
   momentum |-> SqlBind(m.momentum), volatility |-> SqlBind(m.volatility),
   volume |-> SqlBind(m.volume), vwap_dev |-> SqlBind(m.vwap_dev),
   pe |-> SqlBind(m.pe), pb |-> SqlBind(m.pb), de |-> SqlBind(m.de),
   fcf_yield |-> SqlBind(m.fcf_yield), peg |-> SqlBind(m.peg),
   ps |-> SqlBind(m.ps), roe |-> SqlBind(m.roe),
   dividend_yield |-> SqlBind(m.dividend_yield), composite |-> SqlBind(m.peg)]

\* The parameters of upsert.run for a bar.
UpsertParams(date, bar, m, c) ==
  [date |-> date, ticker |-> bar.ticker,
   momentum |-> SqlBind(m.momentum), volatility |-> SqlBind(m.volatility),
   volume |-> SqlBind(m.volume), vwap_dev |-> SqlBind(m.vwap_dev),
   pe |-> SqlBind(m.pe), pb |-> SqlBind(m.pb), de |-> SqlBind(m.de),
   fcf_yield |-> SqlBind(m.fcf_yield), peg |-> SqlBind(m.peg),
   ps |-> SqlBind(m.ps), roe |-> SqlBind(m.roe),
   dividend_yield |-> SqlBind(m.dividend_yield), composite |-> SqlBind(c)]

\* bars.map(computeMetricsForTicker) over the first k bars
RECURSIVE MetricsTo(_, _, _, _)
MetricsTo(bars, prev, funds, k) ==
  IF k = 0 THEN <<>>
  ELSE Append(MetricsTo(bars, prev, funds, k - 1),
              computeMetricsForTicker(bars[k], prev[k], funds[k]))

\* The parameter lists of the first k calls of upsert.run in the loop of tx.
RECURSIVE RowsTo(_, _, _, _, _, _)
RowsTo(date, bars, ms, zs, weights, k) ==
  IF k = 0 THEN <<>>
  ELSE Append(RowsTo(date, bars, ms, zs, weights, k - 1),
              UpsertParams(date, bars[k], ms[k], comp(zs, weights, k)))

\* Everything the script computes from what it read: the z-scores and the
\* rows it is going to upsert, in bar order.  prev[i] is the close 7 days
\* before bar i, funds[i] the fundamentals of its ticker.
PlanZ(date, bars, ms, zs, weights) ==
  [z |-> zs, rows |-> RowsTo(date, bars, ms, zs, weights, Len(bars))]
PlanM(date, bars, ms, weights) == PlanZ(date, bars, ms, ZOf(Arrays(ms)), weights)

\* A faulty variant of the plan: bars joined with fundamentals_latest, so
\* that a bar without a fundamentals row is dropped.
RECURSIVE WithFundamentals(_, _, _)
WithFundamentals(seq, funds, k) ==
  IF k = 0 THEN <<>>
  ELSE IF funds[k].has THEN Append(WithFundamentals(seq, funds, k - 1), seq[k])
  ELSE WithFundamentals(seq, funds, k - 1)

PlanKept(date, bars, prev, funds, weights) ==
  PlanM(date, bars, MetricsTo(bars, prev, funds, Len(bars)), weights)

PlanInnerJoin(date, bars, prev, funds, weights) ==
  PlanKept(date, WithFundamentals(bars, funds, Len(bars)),
           WithFundamentals(prev, funds, Len(bars)),
           WithFundamentals(funds, funds, Len(bars)), weights)

Plan(date, bars, prev, funds, weights) ==
  PlanM(date, bars, MetricsTo(bars, prev, funds, Len(bars)), weights)

\* ------------------------------------------------------------ the database
Lag == 7            \* date(?, '-7 day')
Dates == {1, 1 + Lag}
TickerOrder == <<"A", "B", "C">>
Tickers == {TickerOrder[i] : i \in 1..Len(TickerOrder)}

WhereDate(table, d) == {r \in table : r.date = d}
HasRow(table, d, t) == \E r \in table : r.date = d /\ r.ticker = t
RowOf(table, d, t) == CHOOSE r \in table : r.date = d /\ r.ticker = t

\* Faulty variants of the upsert: one that adds the new composite to the
\* stored one on conflict, one whose conflict target is the ticker alone.
upsertAccumulate(table, row) ==
  IF HasRow(table, row.date, row.ticker)
  THEN {r \in table : ~(r.date = row.date /\ r.ticker = row.ticker)}
       \cup {[row EXCEPT !.composite =
                  Add(RowOf(table, row.date, row.ticker).composite, row.composite)]}
  ELSE table \cup {row}

upsertByTicker(table, row) == {r \in table : r.ticker # row.ticker} \cup {row}

\* INSERT INTO scores ... ON CONFLICT(date,ticker) DO UPDATE SET every other
\* column to the excluded value.
upsert(table, row) ==
  {r \in table : ~(r.date = row.date /\ r.ticker = row.ticker)} \cup {row}

\* The table after the first k rows have been upserted.
RECURSIVE ApplyTo(_, _, _)
ApplyTo(table, rows, k) ==
  IF k = 0 THEN table ELSE upsert(ApplyTo(table, rows, k - 1), rows[k])

\* A faulty variant of the write: upsert.run outside any transaction, each
\* statement committed on its own.
AutoCommitWrite(committed, tx, row) ==
  [committed |-> upsert(committed, row), tx |-> upsert(tx, row)]

\* upsert.run inside db.transaction: the write is in the transaction's view
\* only; other connections keep reading the committed table until COMMIT.
TxWrite(committed, tx, row) == [committed |-> committed, tx |-> upsert(tx, row)]

\* composite REAL NOT NULL, date TEXT NOT NULL, ticker TEXT NOT NULL
ScoresConstraint(row) == row.composite # Null

\* SELECT * FROM daily_bars WHERE date=? : the rows in primary-key order,
\* over the first k tickers.
RECURSIVE BarsTo(_, _, _)
BarsTo(table, d, k) ==
  IF k = 0 THEN <<>>
  ELSE IF HasRow(table, d, TickerOrder[k])
       THEN Append(BarsTo(table, d, k - 1), RowOf(table, d, TickerOrder[k]))
       ELSE BarsTo(table, d, k - 1)

BarsOn(table, d) == BarsTo(table, d, Len(TickerOrder))

\* SELECT close FROM daily_bars WHERE date = date(?, '-7 day') AND ticker=?
\* for the first k bars; null stands for no row as for a null close.
RECURSIVE PrevTo(_, _, _)
PrevTo(table, bars, k) ==
  IF k = 0 THEN <<>>
  ELSE Append(PrevTo(table, bars, k - 1),
              IF HasRow(table, bars[k].date - Lag, bars[k].ticker)
              THEN RowOf(table, bars[k].date - Lag, bars[k].ticker).close
              ELSE Null)

\* getFundamentals(t) || {} for the first k bars
RECURSIVE FundsTo(_, _, _)
FundsTo(latest, bars, k) ==
  IF k = 0 THEN <<>>
  ELSE Append(FundsTo(latest, bars, k - 1), latest[bars[k].ticker])

\* Math.round(x): the nearest integer, halves towards +infinity.
MathRound(x) ==
  IF x.e >= 0 THEN x
  ELSE F((2 * x.m + 2^(0 - x.e)) \div 2^(1 - x.e))

\* (typeof v === 'number') ? v : null
NumberOrNull(v) == IF v.k = "null" THEN Null ELSE SqlBind(v)

\* The record fetchDailyDataToDb.js builds from one element of data.results.
BarOf(d, r) ==
  [date |-> d, ticker |-> r.T,
   open |-> NumberOrNull(r.o), high |-> NumberOrNull(r.h),
   low |-> NumberOrNull(r.l), close |-> NumberOrNull(r.c),
   volume |-> IF IsNum(r.v) THEN MathRound(r.v) ELSE Null,
   vwap |-> NumberOrNull(r.vw)]

\* INSERT INTO daily_bars ... ON CONFLICT(date, ticker) DO UPDATE SET ...
UpsertBar(table, row) ==
  {r \in table : ~(r.date = row.date /\ r.ticker = row.ticker)} \cup {row}

\* tx(rows) of fetchDailyDataToDb.js over the first k results
RECURSIVE BarsApplyTo(_, _, _, _)
BarsApplyTo(table, d, results, k) ==
  IF k = 0 THEN table
  ELSE UpsertBar(BarsApplyTo(table, d, results, k - 1), BarOf(d, results[k]))

\* ------------------------------------------------------- the environment
\* What Polygon can answer for a date: no results, or one of a few result
\* lists (prices, a fractional volume, missing fields).
Res(t, o, h, l, c, v, vw) ==
  [T |-> t, o |-> o, h |-> h, l |-> l, c |-> c, v |-> v, vw |-> vw]

Upstream(d) ==
  IF d = 1
  THEN { <<>>, << Res("A", F(2), F(2), F(2), F(2), F(4), F(2)) >> }
  ELSE { <<>>,
         << Res("A", F(2), F(3), F(1), F(3), Num(5, -1), F(2)),
            Res("B", F(1), F(2), F(1), F(2), F(1), Null),
            Res("C", Null, Null, Null, Null, Null, Null) >>,
         << Res("A", F(2), F(4), F(2), F(4), F(6), F(3)) >> }

Fd(ni, se, tl, rev, oc, cx, dv, sh) ==
  [has |-> TRUE, net_income |-> ni, shareholders_equity |-> se,
   total_liabilities |-> tl, revenue |-> rev, op_cash |-> oc, capex |-> cx,
   dividends |-> dv, shares_outstanding |-> sh]

\* The latest filing a fundamentals fetch can store for a ticker: complete
\* for A, with missing fields and a zero equity for B, none for C.
Filings(t) ==
  IF t = "A" THEN {Fd(F(2), F(4), F(2), F(8), F(3), F(1), F(1), F(2))}
  ELSE IF t = "B" THEN {Fd(F(-1), Zero, F(1), Null, Null, F(1), Null, F(1))}
  ELSE {}

\* The objects POST /api/weights can be given: one with three keys (one of
\* them null), all other keys absent.
PostedWeights ==
  { [k \in WeightKeys |->
       IF k = "momentum" THEN F(1)
       ELSE IF k = "pe" THEN Lit(1, 2)
       ELSE IF k = "roe" THEN Null
       ELSE Absent] }

\* ----------------------------------------------------------------- state
MaxRuns == 2        \* scoring runs started in a behaviour
MaxJobs == 2        \* autoRunner processes the scheduler spawns in a behaviour
MaxReads == 2       \* rankings read from an unchanged table in a behaviour

VARIABLES
  zin,    \* the array handed to zScores
  zout,   \* what zScores returned for zin
  zdone,  \* whether zScores has returned
  daily_bars,           \* table daily_bars: a set of rows
  fundamentals_latest,  \* table fundamentals_latest: ticker -> row
  weightsFile,          \* config/weights.json
  scores,               \* table scores as every other connection reads it
  proc,                 \* the computeScoresToDb.js process
  runs,                 \* scoring runs started so far
  rerun,                \* the last committed run and what it left
  sched,                \* schedule.js: whether it is running
  jobs,                 \* the autoRunner.js processes spawned by runJob
  backfill,             \* the backfillRange.js process
  args,                 \* the arguments of the function under study
  result,               \* what the function has returned
  returned              \* whether it has returned

zvars == <<zin, zout, zdone>>
dbvars == <<daily_bars, fundamentals_latest, weightsFile, scores, proc, runs, rerun>>
ovars == <<sched, jobs, backfill>>
pvars == <<args, result, returned>>
vars == <<zvars, dbvars, ovars, pvars>>

\* --------------------------------------------- zScores as a pure function
ZVals == {F(v) : v \in -MaxVal..MaxVal}
ZInputs == UNION {[1..n -> ZVals] : n \in 0..MaxLen}

IdleProc ==
  [pc |-> "idle", date |-> 0, file |-> NoWeightsFile, weights |-> LoadWeights(NoWeightsFile),
   bars |-> <<>>, prev |-> <<>>, funds |-> <<>>, z |-> ZOf(Arrays(<<>>)),
   rows |-> <<>>, i |-> 0, before |-> {}, tx |-> {}, status |-> "none",
   cause |-> "none"]

NoRerun ==
  [date |-> 0, bars |-> <<>>, prev |-> <<>>, funds |-> <<>>,
   file |-> NoWeightsFile, after |-> {}, same |-> FALSE]

\* The database after initDb.js, one fetch for date 1 and one fundamentals
\* fetch for ticker A; no weights.json, no scoring run so far.
DBInit ==
  /\ daily_bars = BarsApplyTo({}, 1, << Res("A", F(2), F(2), F(2), F(2), F(4), F(2)) >>, 1)
  /\ fundamentals_latest =
       [t \in Tickers |->
          IF t = "A" THEN Fd(F(2), F(4), F(2), F(8), F(3), F(1), F(1), F(2))
          ELSE NoFundamentals]
  /\ weightsFile = NoWeightsFile
  /\ scores = {}
  /\ proc = IdleProc
  /\ runs = 0
  /\ rerun = NoRerun

ZIdle == zin = <<>> /\ zout = <<>> /\ zdone = FALSE

\* Nothing scheduled, no backfill started.
NoSteps == <<"notstarted", "notstarted", "notstarted">>
OInit ==
  /\ sched = FALSE
  /\ jobs = <<>>
  /\ backfill = [pc |-> "off", days |-> <<>>, k |-> 0, st |-> NoSteps, status |-> "none"]

\* No function under study.
PIdle == args = <<>> /\ result = <<>> /\ returned = FALSE

ZInit == zin \in ZInputs /\ zout = <<>> /\ zdone = FALSE /\ DBInit /\ OInit /\ PIdle

ZApply ==
  /\ ~zdone
  /\ zout' = zScores(zin)
  /\ zdone' = TRUE
  /\ UNCHANGED <<zin, dbvars, ovars, pvars>>

ZNext == ZApply
SpecZ == ZInit /\ [][ZNext]_vars

AllSame(arr) == \A i \in 1..Len(arr) : arr[i] = arr[1]

\* ----------------------------------------------- scripts on the database
\* fetchDailyDataToDb.js <d>: no results (or a failed request) is exit 1 with
\* nothing written; otherwise every result is upserted in one transaction.
fetchDailyDataToDb(d) ==
  /\ \E results \in Upstream(d) :
       daily_bars' =
         IF Len(results) = 0 THEN daily_bars
         ELSE BarsApplyTo(daily_bars, d, results, Len(results))
  /\ UNCHANGED <<fundamentals_latest, weightsFile, scores, proc, runs, rerun, zvars, ovars, pvars>>

\* upLatest.run for ticker t with its most recent filing.
upLatest(t) ==
  /\ \E f \in Filings(t) :
       /\ fundamentals_latest[t] # f
       /\ fundamentals_latest' = [fundamentals_latest EXCEPT ![t] = f]
  /\ UNCHANGED <<daily_bars, weightsFile, scores, proc, runs, rerun, zvars, ovars, pvars>>

\* POST /api/weights: saveWeights(req.body)
saveWeights ==
  /\ \E w \in PostedWeights :
       /\ weightsFile # WeightsFile(w)
       /\ weightsFile' = WeightsFile(w)
  /\ UNCHANGED <<daily_bars, fundamentals_latest, scores, proc, runs, rerun, zvars, ovars, pvars>>

\* computeScoresToDb.js <d> up to the call of tx(): the weights, the bars of
\* the date and, per bar, the close 7 days earlier and the fundamentals are
\* read; without bars the script logs and calls process.exit(0).  A run is
\* started when no earlier one is still running.
ProcInTx(d, file, weights, bars, prev, funds, plan) ==
  [pc |-> "tx", date |-> d, file |-> file, weights |-> weights, bars |-> bars,
   prev |-> prev, funds |-> funds, z |-> plan.z, rows |-> plan.rows, i |-> 0,
   before |-> scores, tx |-> scores, status |-> "none", cause |-> "none"]

ProcRead(d, file, weights, bars, prev, funds) ==
  ProcInTx(d, file, weights, bars, prev, funds, Plan(d, bars, prev, funds, weights))

ProcStarted(d, file, bars) ==
  IF Len(bars) = 0
  THEN [IdleProc EXCEPT !.pc = "done", !.date = d, !.file = file,
                        !.weights = LoadWeights(file), !.before = scores,
                        !.status = "0"]
  ELSE ProcRead(d, file, LoadWeights(file), bars,
                PrevTo(daily_bars, bars, Len(bars)),
                FundsTo(fundamentals_latest, bars, Len(bars)))

computeStart(d) ==
  /\ proc.pc \in {"idle", "done"}
  /\ runs < MaxRuns
  /\ runs' = runs + 1
  /\ proc' = ProcStarted(d, weightsFile, BarsOn(daily_bars, d))
  /\ UNCHANGED <<daily_bars, fundamentals_latest, weightsFile, scores, rerun, zvars, ovars, pvars>>

\* One upsert.run of the loop.  A row that breaks a constraint makes the
\* statement throw: db.transaction rolls back and the script dies (exit 1).
computeUpsert ==
  /\ proc.pc = "tx"
  /\ proc.i < Len(proc.rows)
  /\ LET row == proc.rows[proc.i + 1]
     IN IF ScoresConstraint(row)
        THEN LET w == TxWrite(scores, proc.tx, row)
             IN /\ scores' = w.committed
                /\ proc' = [proc EXCEPT !.tx = w.tx, !.i = @ + 1]
        ELSE /\ scores' = scores
             /\ proc' = [proc EXCEPT !.pc = "done", !.tx = {}, !.status = "1",
                                     !.cause = "constraint"]
  /\ UNCHANGED <<daily_bars, fundamentals_latest, weightsFile, runs, rerun, zvars, ovars, pvars>>

\* The loop is over: COMMIT, then the script logs and ends (exit 0).
computeCommit ==
  /\ proc.pc = "tx"
  /\ proc.i = Len(proc.rows)
  /\ scores' = proc.tx
  /\ proc' = [proc EXCEPT !.pc = "done", !.tx = {}, !.status = "0"]
  /\ LET same == /\ rerun.date = proc.date /\ rerun.bars = proc.bars
                 /\ rerun.prev = proc.prev /\ rerun.funds = proc.funds
                 /\ rerun.file = proc.file
     IN rerun' = [date |-> proc.date, bars |-> proc.bars, prev |-> proc.prev,
                  funds |-> proc.funds, file |-> proc.file,
                  after |-> IF same THEN rerun.after
                            ELSE WhereDate(proc.tx, proc.date),
                  same |-> same]
  /\ UNCHANGED <<daily_bars, fundamentals_latest, weightsFile, runs, zvars, ovars, pvars>>

\* An upsert.run fails for a reason outside the script (disk full, I/O
\* error): the transaction is rolled back and the script dies (exit 1).
computeThrow ==
  /\ proc.pc = "tx"
  /\ proc.i < Len(proc.rows)
  /\ proc' = [proc EXCEPT !.pc = "done", !.tx = {}, !.status = "1", !.cause = "io"]
  /\ UNCHANGED <<daily_bars, fundamentals_latest, weightsFile, scores, runs, rerun, zvars, ovars, pvars>>

\* The process is killed inside the transaction: nothing was committed.
computeKill ==
  /\ proc.pc = "tx"
  /\ proc' = [proc EXCEPT !.pc = "done", !.tx = {}, !.status = "killed",
                          !.cause = "killed"]
  /\ UNCHANGED <<daily_bars, fundamentals_latest, weightsFile, scores, runs, rerun, zvars, ovars, pvars>>

\* recomputeScores.js: compute(date) hands db.exec one statement that uses
\* the operator **, which SQLite does not parse: exec throws, nothing is
\* written.
recomputeScores(d) ==
  /\ d \in Dates
  /\ UNCHANGED <<dbvars, zvars, ovars, pvars>>

Init == ZIdle /\ DBInit /\ OInit /\ PIdle

Next ==
  \/ \E d \in Dates : fetchDailyDataToDb(d)
  \/ \E t \in Tickers : upLatest(t)
  \/ saveWeights
  \/ \E d \in Dates : computeStart(d)
  \/ computeUpsert
  \/ computeCommit
  \/ computeThrow
  \/ computeKill
  \/ \E d \in Dates : recomputeScores(d)

Spec == Init /\ [][Next]_vars

\* ----------------------------------------------------------- orchestration
\* The steps of a run are numbered 1 (fetchDailyDataToDb), 2
\* (computeScoresToDb), 3 (updateUniverseFromReference); each is
\* "notstarted", "running" or has exited ("exit0", "exit1").
Exits == {"exit0", "exit1"}

\* A faulty variant: spawn instead of spawnSync returns once the child has
\* been started.
StepSpawned(st) == st # "notstarted"

\* spawnSync returns when the child has exited.
StepReturned(st) == st \in Exits

\* runJob(): spawn autoRunner.js, which takes today's date; the date never
\* goes back from one job to the next.
runJob ==
  /\ Len(jobs) < MaxJobs
  /\ \E today \in Dates :
       /\ Len(jobs) > 0 => today >= jobs[Len(jobs)].today
       /\ jobs' = Append(jobs, [today |-> today, st |-> NoSteps])

\* schedule.js is started: runJob() once, then setInterval(runJob, ...).
scheduleStart ==
  /\ ~sched
  /\ sched' = TRUE
  /\ runJob
  /\ UNCHANGED <<backfill, zvars, dbvars, pvars>>

\* The interval timer fires.
scheduleTick ==
  /\ sched
  /\ runJob
  /\ UNCHANGED <<sched, backfill, zvars, dbvars, pvars>>

\* A faulty variant of runStep: a step is started only when the step before
\* exited with status 0.
autoRunnerStepAfterSuccess(j, k) ==
  /\ jobs[j].st[k] = "notstarted"
  /\ k > 1 => jobs[j].st[k - 1] = "exit0"
  /\ jobs' = [jobs EXCEPT ![j].st[k] = "running"]
  /\ UNCHANGED <<sched, backfill, zvars, dbvars, pvars>>

\* autoRunner.js, job j: runStep number k spawns its child once the step
\* before has returned.
autoRunnerStep(j, k) ==
  /\ jobs[j].st[k] = "notstarted"
  /\ k > 1 => StepReturned(jobs[j].st[k - 1])
  /\ jobs' = [jobs EXCEPT ![j].st[k] = "running"]
  /\ UNCHANGED <<sched, backfill, zvars, dbvars, pvars>>

\* The child of step k of job j exits; runStep warns on a non-zero status
\* and returns.
autoRunnerChildExit(j, k) ==
  /\ jobs[j].st[k] = "running"
  /\ \E status \in Exits : jobs' = [jobs EXCEPT ![j].st[k] = status]
  /\ UNCHANGED <<sched, backfill, zvars, dbvars, pvars>>

\* function* days(start, end): the days up to d that are neither Saturday
\* (6) nor Sunday (0); day 1 is a Monday.
RECURSIVE DaysTo(_, _)
DaysTo(start, d) ==
  IF d < start THEN <<>>
  ELSE IF d % 7 \in {0, 6} THEN DaysTo(start, d - 1)
  ELSE Append(DaysTo(start, d - 1), d)

days(start, end) == DaysTo(start, end)

\* The ranges backfillRange.js is started with.
BackfillRanges == {<<5, 8>>, <<6, 7>>}

\* backfillRange.js <start> <end> is started.
backfillStart ==
  /\ backfill.pc = "off"
  /\ \E r \in BackfillRanges :
       backfill' = [pc |-> "run", days |-> days(r[1], r[2]), k |-> 1,
                    st |-> NoSteps, status |-> "none"]
  /\ UNCHANGED <<sched, jobs, zvars, dbvars, pvars>>

\* run(...) of step k (1 or 2) for the current day, the step before having
\* returned with status 0.
backfillStep(k) ==
  /\ backfill.pc = "run"
  /\ backfill.k <= Len(backfill.days)
  /\ backfill.st[k] = "notstarted"
  /\ k > 1 => StepReturned(backfill.st[k - 1])
  /\ backfill' = [backfill EXCEPT !.st[k] = "running"]
  /\ UNCHANGED <<sched, jobs, zvars, dbvars, pvars>>

\* The child exits: a non-zero status ends the backfill (process.exit); a
\* zero status of the scoring step moves on to the next day.
backfillChildExit(k) ==
  /\ backfill.pc = "run"
  /\ backfill.k <= Len(backfill.days)
  /\ backfill.st[k] = "running"
  /\ \E status \in Exits :
       backfill' =
         IF status # "exit0"
         THEN [backfill EXCEPT !.pc = "done", !.st[k] = status, !.status = "1"]
         ELSE IF k = 2
         THEN [backfill EXCEPT !.k = @ + 1, !.st = NoSteps]
         ELSE [backfill EXCEPT !.st[k] = status]
  /\ UNCHANGED <<sched, jobs, zvars, dbvars, pvars>>

\* After the last day: run(updateUniverseFromReference.js), then the end.
backfillUniverse ==
  /\ backfill.pc = "run"
  /\ backfill.k > Len(backfill.days)
  /\ \/ /\ backfill.st[3] = "notstarted"
        /\ backfill' = [backfill EXCEPT !.st[3] = "running"]
     \/ /\ backfill.st[3] = "running"
        /\ \E status \in Exits :
             backfill' = [backfill EXCEPT !.pc = "done", !.st[3] = status,
                                          !.status = IF status = "exit0" THEN "0" ELSE "1"]
  /\ UNCHANGED <<sched, jobs, zvars, dbvars, pvars>>

OrchNext ==
  \/ scheduleStart
  \/ scheduleTick
  \/ \E j \in 1..Len(jobs), k \in 1..3 : autoRunnerStep(j, k)
  \/ \E j \in 1..Len(jobs), k \in 1..3 : autoRunnerChildExit(j, k)
  \/ backfillStart
  \/ \E k \in 1..2 : backfillStep(k)
  \/ \E k \in 1..2 : backfillChildExit(k)
  \/ backfillUniverse

SpecOrch == Init /\ [][OrchNext]_vars

\* ------------------------------------------- the plan under a reordering
\* The bars of one date handed to the scoring in two orders: as read, and
\* permuted (SELECT * FROM daily_bars WHERE date=? has no ORDER BY).
Perms(n) == {p \in [1..n -> 1..n] : \A i \in 1..n : \A j \in 1..n : p[i] = p[j] => i = j}

\* The first k elements of seq taken in the order perm.
RECURSIVE PermuteTo(_, _, _)
PermuteTo(seq, perm, k) ==
  IF k = 0 THEN <<>> ELSE Append(PermuteTo(seq, perm, k - 1), seq[perm[k]])

\* Bars of the three tickers on the later date, closes of a week before,
\* fundamentals for A and B.
ReorderInputs ==
  { [bars |-> bars, prev |-> << pa, Null, Null >>,
     funds |-> << Fd(F(2), F(4), F(2), F(8), F(3), F(1), F(1), F(2)),
                  Fd(F(-1), Zero, F(1), Null, Null, F(1), Null, F(1)),
                  NoFundamentals >>,
     perm |-> perm] :
      bars \in
        { << BarOf(1 + Lag, a), BarOf(1 + Lag, b), BarOf(1 + Lag, c) >> :
            a \in { Res("A", F(2), F(3), F(1), F(3), F(1), F(2)),
                    Res("A", F(2), F(2), F(2), F(2), F(4), F(2)) },
            b \in { Res("B", F(1), F(2), F(1), F(2), F(2), Null),
                    Res("B", F(1), F(1), F(1), F(1), F(4), F(1)) },
            c \in { Res("C", F(2), F(4), F(2), F(4), F(7), F(3)),
                    Res("C", Null, Null, Null, Null, Null, Null) } },
      pa \in {Null, F(2)}, perm \in Perms(Len(TickerOrder)) }

ReorderInit ==
  /\ args \in ReorderInputs
  /\ result = <<>>
  /\ returned = FALSE
  /\ ZIdle /\ DBInit /\ OInit

\* The scoring of the bars as read (first) and of the permuted bars (second),
\* under the default weights.
Scored(bars, prev, funds) ==
  Plan(1 + Lag, bars, prev, funds, LoadWeights(NoWeightsFile))

ReorderApply ==
  /\ ~returned
  /\ result' = [first |-> Scored(args.bars, args.prev, args.funds),
                second |-> Scored(PermuteTo(args.bars, args.perm, Len(args.bars)),
                                  PermuteTo(args.prev, args.perm, Len(args.bars)),
                                  PermuteTo(args.funds, args.perm, Len(args.bars)))]
  /\ returned' = TRUE
  /\ UNCHANGED <<args, zvars, dbvars, ovars>>

SpecReorder == ReorderInit /\ [][ReorderApply]_vars

\* ------------------------------------------------------------ the ranking
\* The ways to list rows (a sequence, in primary-key order) by composite,
\* highest first, as permutations of the row numbers: ORDER BY composite DESC
\* names no second key, so rows with equal composite come in any order.
OrderByCompositeDesc(rows) ==
  {p \in Perms(Len(rows)) :
     \A i \in 1..Len(rows) : \A j \in 1..Len(rows) :
       i < j => ~Gt0(Sub(rows[p[j]].composite, rows[p[i]].composite))}

\* results.sort((a, b) => b.score - a.score): Array.prototype.sort is
\* stable, rows with equal score keep their order.
sort(rows) ==
  CHOOSE p \in OrderByCompositeDesc(rows) :
    \A i \in 1..Len(rows) : \A j \in 1..Len(rows) :
      (i < j /\ rows[p[i]].composite = rows[p[j]].composite) => p[i] < p[j]

\* The score rows of one date: a composite for each ticker.
RankingInit ==
  /\ args \in { [rows |-> << [ticker |-> "A", composite |-> a],
                          [ticker |-> "B", composite |-> b],
                          [ticker |-> "C", composite |-> c] >>] :
                 a \in {F(-1), Zero, Lit(1, 2)}, b \in {F(-1), Zero, Lit(1, 2)},
                 c \in {F(-1), Zero, Lit(1, 2)} }
  /\ result = <<>>
  /\ returned = FALSE
  /\ ZIdle /\ DBInit /\ OInit

\* GET /api/scores/:date on the unchanged table.
apiScores ==
  /\ Len(result) < MaxReads
  /\ \E p \in OrderByCompositeDesc(args.rows) :
       result' = Append(result, [by |-> "api", order |-> p])
  /\ returned' = TRUE
  /\ UNCHANGED <<args, zvars, dbvars, ovars>>

\* computeScores of scoreUtils.js sorting the same rows.
sortResults ==
  /\ Len(result) < MaxReads
  /\ result' = Append(result, [by |-> "sort", order |-> sort(args.rows)])
  /\ returned' = TRUE
  /\ UNCHANGED <<args, zvars, dbvars, ovars>>

RankingNext == apiScores \/ sortResults
SpecRanking == RankingInit /\ [][RankingNext]_vars

\* ------------------------------------------------- the ratios of one ticker
\* A fundamentals_history row of the ticker: period_end counted in months,
\* and eps_basic.
Period(p, e) == [period_end |-> p, eps_basic |-> e]

\* The histories a fundamentals fetch can have stored: none, the latest
\* period alone, earlier periods 33, 36 and 60 months before it, EPS that
\* grew, fell, is negative, zero or missing.
Histories ==
  { {}, {Period(60, F(2))},
    {Period(60, F(2)), Period(24, F(1))},
    {Period(60, F(2)), Period(0, F(1))},
    {Period(60, F(2)), Period(27, F(1))},
    {Period(60, F(2)), Period(27, F(1)), Period(24, F(1)), Period(0, F(-1))},
    {Period(60, F(-2)), Period(24, F(-1))},
    {Period(60, Null), Period(24, F(1))},
    {Period(60, F(1)), Period(24, F(2))},
    {Period(60, F(2)), Period(24, Zero)} }

\* The eps CTE for the ticker: a is the row of MAX(period_end), b any row
\* with DATE(b.period_end) <= DATE(a.period_end, '-36 months'); GROUP BY
\* a.ticker keeps one joined row and takes the bare columns from it, so each
\* such b is a possible eps_then.  growth is a.eps_basic / b.eps_basic, of
\* which eps_cagr_3y is the cube root less 1.0 (NULL when growth is).  No
\* history gives no row, and the LEFT JOIN of the UPDATE gives NULLs.
eps(history) ==
  IF history = {}
  THEN {[now_end |-> 0, paired |-> FALSE, then_end |-> 0, eps_now |-> Null,
         eps_then |-> Null, growth |-> Null]}
  ELSE LET a == CHOOSE r \in history :
                  \A q \in history : q.period_end <= r.period_end
           bs == {b \in history : b.period_end <= a.period_end - 36}
       IN IF bs = {}
          THEN {[now_end |-> a.period_end, paired |-> FALSE, then_end |-> 0,
                 eps_now |-> a.eps_basic, eps_then |-> Null, growth |-> Null]}
          ELSE {[now_end |-> a.period_end, paired |-> TRUE,
                 then_end |-> b.period_end, eps_now |-> a.eps_basic,
                 eps_then |-> b.eps_basic,
                 growth |-> IF a.eps_basic # Null /\ b.eps_basic # Null
                               /\ b.eps_basic # Zero
                            THEN Div(a.eps_basic, b.eps_basic) ELSE Null]
                : b \in bs}

\* x / y in SQL: NULL when an operand is NULL or the divisor is 0.
SqlDiv(x, y) == IF x = Null \/ y = Null \/ y = Zero THEN Null ELSE Div(x, y)

\* The row of scores with the columns of m, the ratios of r, and peg3; e is
\* the eps row that was joined.
ScoresRow(m, r, peg3, e) ==
  [momentum |-> m.momentum, volatility |-> m.volatility, volume |-> m.volume,
   vwap_dev |-> m.vwap_dev, peg |-> m.peg, pe |-> r.pe, pb |-> r.pb,
   ps |-> r.ps, roe |-> r.roe, fcf_yield |-> r.fcf_yield,
   dividend_yield |-> r.dividend_yield, de |-> r.de, peg3 |-> peg3, eps |-> e]

\* The SET clause of the UPDATE in compute(date), for the scores row m of a
\* ticker with fundamentals_latest row f, px.close = close and eps row e.
\* cap is p.close * f.shares_outstanding.  The columns operating_cash_flow,
\* capital_expenditures, total_equity and total_debt of fundamentals_latest
\* are NULL (its writers fill op_cash, capex, shareholders_equity and
\* total_liabilities), so each COALESCE gives its second argument.  peg3 is
\* pe / (growth ** (1.0/3.0) - 1.0), kept as the pair of pe and growth;
\* eps_cagr_3y > 0 exactly when growth > 1.
RecomputeSet(m, f, close, e, cap) ==
  ScoresRow(m,
    [pe |-> IF Gt0(f.net_income) /\ Gt0(f.shares_outstanding) /\ close # Null
            THEN SqlDiv(cap, f.net_income) ELSE Null,
     pb |-> IF Gt0(f.shareholders_equity) /\ Gt0(f.shares_outstanding)
               /\ close # Null
            THEN SqlDiv(cap, f.shareholders_equity) ELSE Null,
     ps |-> IF Gt0(f.revenue) /\ Gt0(f.shares_outstanding) /\ close # Null
            THEN SqlDiv(cap, f.revenue) ELSE Null,
     roe |-> IF f.shareholders_equity # Null /\ f.shareholders_equity # Zero
             THEN SqlDiv(f.net_income, f.shareholders_equity) ELSE Null,
     fcf_yield |-> IF Gt0(f.shares_outstanding) /\ close # Null
                      /\ f.op_cash # Null /\ f.capex # Null
                   THEN SqlDiv(Sub(f.op_cash, f.capex), cap) ELSE Null,
     dividend_yield |-> IF Gt0(f.shares_outstanding) /\ close # Null
                           /\ f.dividends # Null
                        THEN SqlDiv(f.dividends, cap) ELSE Null,
     de |-> IF Gt0(f.shareholders_equity)
            THEN SqlDiv(f.total_liabilities, f.shareholders_equity)
            ELSE Null],
    IF e.growth # Null /\ Gt0(Sub(e.growth, F(1))) /\ Gt0(f.net_income)
       /\ Gt0(f.shares_outstanding) /\ close # Null
    THEN [pe |-> SqlDiv(cap, f.net_income), growth |-> e.growth] ELSE Null,
    e)

\* One ticker on the date 1 + Lag: its daily_bars row (a negative, zero or
\* missing open, a missing close), the close 7 days earlier (none, zero or
\* positive), its fundamentals_latest row (none, or with a missing, negative
\* or zero net income, equity, share count), and its history.
RatiosInit ==
  /\ args \in
       { [bar |-> BarOf(1 + Lag, Res("A", o, F(3), F(1), c, F(1), F(2))),
          prev |-> pc, f |-> f, history |-> h] :
           o \in {Null, Zero, F(-2), F(2)}, c \in {Null, F(3)},
           pc \in {Null, Zero, F(2)},
           f \in {NoFundamentals}
                 \cup { Fd(ni, se, tl, F(8), F(3), F(1), F(1), sh) :
                          ni \in {Null, F(-2), Zero, F(2)},
                          se \in {Null, F(-4), Zero, F(4)},
                          tl \in {Null, F(2)},
                          sh \in {Null, Zero, F(2)} },
           h \in Histories }
  /\ result = <<>>
  /\ returned = FALSE
  /\ ZIdle /\ DBInit /\ OInit

\* computeScoresToDb.js: the metrics of the ticker, which the scoring run
\* writes to its row.
scoreTicker ==
  /\ result = <<>>
  /\ result' = << computeMetricsForTicker(args.bar, args.prev, args.f) >>
  /\ UNCHANGED <<args, returned, zvars, dbvars, ovars>>

\* recomputeScores.js, compute(date), as its statement reads, with ** as the
\* power it is written for (SQLite has no such operator and rejects the
\* statement: recomputeScores above).  The row of a ticker without
\* fundamentals_latest row is not updated (WHERE s.ticker = f.ticker).
compute ==
  /\ Len(result) = 1
  /\ \E e \in eps(args.history) :
       result' = Append(result,
         IF args.f.has
         THEN RecomputeSet(result[1], args.f, args.bar.close, e,
                           Mul(args.bar.close, args.f.shares_outstanding))
         ELSE ScoresRow(result[1], result[1], Null, e))
  /\ returned' = TRUE
  /\ UNCHANGED <<args, zvars, dbvars, ovars>>

RatiosNext == scoreTicker \/ compute
SpecRatios == RatiosInit /\ [][RatiosNext]_vars

\* --------------------------------------- fundamentals_latest from history
MaxPeriod == 6      \* latest period_end (a count of quarters) in SpecLatest

\* normalizeRow: a stored period.  v is its revenue and operating cash flow
\* and, negated, its net income; no dividends are reported; the equity tells
\* the period and an annual period reports no liabilities.
HistoryRow(p, tf, v) ==
  [period_end |-> p, timeframe |-> tf, revenue |-> v,
   net_income |-> IF v = Null THEN Null ELSE Neg(v),
   operating_cash_flow |-> v, capital_expenditures |-> F(1),
   dividends |-> Null, shares_outstanding |-> F(2),
   shareholders_equity |-> F(p),
   total_liabilities |-> IF tf = "annual" THEN Null ELSE F(1)]

\* ORDER BY DATE(period_end) DESC
RECURSIVE OrderByPeriodEndDesc(_)
OrderByPeriodEndDesc(rows) ==
  IF rows = {} THEN <<>>
  ELSE LET r == CHOOSE x \in rows : \A y \in rows : y.period_end <= x.period_end
       IN <<r>> \o OrderByPeriodEndDesc(rows \ {r})

\* A faulty variant of last4: three quarters.
last3(q) == SubSeq(q, 1, Min(3, Len(q)))

\* const last4 = q.slice(0, 4)
last4(q) == SubSeq(q, 1, Min(4, Len(q)))

\* arr.reduce((acc, r) => acc + (Number(r[key]) || 0), 0) over the first k
RECURSIVE sum(_, _, _)
sum(arr, key, k) ==
  IF k = 0 THEN Zero ELSE Add(sum(arr, key, k - 1), OrZero(arr[k][key]))

\* The parameters of upsertLatest.run: l4 is last4, latest is the row of
\* latest in a sequence, empty when there is none (then filing_date is
\* today).
LatestParams(l4, latest) ==
  [filing_date |-> IF Len(latest) > 0 THEN latest[1].period_end
                   ELSE MaxPeriod + 1,
   net_income |-> IF Len(l4) > 0 THEN sum(l4, "net_income", Len(l4)) ELSE Null,
   shareholders_equity |-> IF Len(latest) > 0
                           THEN latest[1].shareholders_equity ELSE Null,
   total_liabilities |-> IF Len(latest) > 0
                         THEN latest[1].total_liabilities ELSE Null,
   revenue |-> IF Len(l4) > 0 THEN sum(l4, "revenue", Len(l4)) ELSE Null,
   op_cash |-> IF Len(l4) > 0 THEN sum(l4, "operating_cash_flow", Len(l4))
               ELSE Null,
   capex |-> IF Len(l4) > 0 THEN sum(l4, "capital_expenditures", Len(l4))
             ELSE Null,
   dividends |-> IF Len(l4) > 0 THEN sum(l4, "dividends", Len(l4)) ELSE Null,
   shares_outstanding |-> IF Len(latest) > 0
                          THEN latest[1].shares_outstanding ELSE Null]

\* The stored periods of a ticker: any of the quarters before MaxPeriod,
\* each with a missing or a reported revenue, and none, one or both of the
\* annual periods that end with quarter 3 and with quarter MaxPeriod.
LatestInit ==
  /\ args \in
       { [history |->
            {HistoryRow(p, "quarterly", v[p]) :
               p \in {x \in 1..(MaxPeriod - 1) : v[x] # Absent}} \cup a] :
           v \in [1..(MaxPeriod - 1) -> {Absent, Null, F(1), F(2)}],
           a \in SUBSET {HistoryRow(3, "annual", F(2)),
                         HistoryRow(MaxPeriod, "annual", F(2))} }
  /\ result = <<>>
  /\ returned = FALSE
  /\ ZIdle /\ DBInit /\ OInit

\* The row computeTTMAndWriteLatest upserts into fundamentals_latest from
\* the stored periods of the ticker.  q is the result of the first query
\* (quarterly periods, ORDER BY DATE(period_end) DESC LIMIT 8) and latest is
\* q[0] or else the first row of the second query, over all periods.
LatestOf(history) ==
  LET qs == OrderByPeriodEndDesc({r \in history : r.timeframe = "quarterly"})
      q == SubSeq(qs, 1, Min(8, Len(qs)))
      all == OrderByPeriodEndDesc(history)
  IN LatestParams(last4(q),
                  IF Len(q) > 0 THEN SubSeq(q, 1, 1)
                  ELSE SubSeq(all, 1, Min(1, Len(all))))

\* computeTTMAndWriteLatest(ticker)
computeTTMAndWriteLatest ==
  /\ ~returned
  /\ result' = LatestOf(args.history)
  /\ returned' = TRUE
  /\ UNCHANGED <<args, zvars, dbvars, ovars>>

SpecLatest == LatestInit /\ [][computeTTMAndWriteLatest]_vars

\* ------------------------------------------------ the fundamentals fetch
\* What the two paged fetches of a ticker give after normalizeRow: nothing
\* ("none": no results, 404, an error), rows without end_date ("nodate",
\* filtered out), a quarterly period p with revenue v ("ok"), the same
\* without a timeframe ("notf": timeframe is null), or a period one of
\* whose values is an object without a value key, which gv returns as it is
\* and the statement cannot bind ("bad").
Fetched ==
  {[kind |-> k, p |-> 1, v |-> Null] : k \in {"none", "nodate", "bad"}}
    \cup {[kind |-> "ok", p |-> p, v |-> v] : p \in {1, 2}, v \in {F(1), F(2)}}
    \cup {[kind |-> "notf", p |-> 1, v |-> v] : v \in {F(1), F(2)}}

\* The lists of tickers a run is given (--tickers A,B,A or the universe).
TickerLists ==
  { <<"A">>, <<"A", "A">>, <<"A", "B">>, <<"A", "B", "A">>, <<"B", "A", "C">> }

\* upsertHistory.run: INSERT ... ON CONFLICT(ticker, period_end, timeframe)
\* DO UPDATE.  The table is kept in rowid order.  A null timeframe ("none")
\* conflicts with no row, as NULLs are distinct in a SQLite primary key.
RECURSIVE upsertHistory(_, _, _)
upsertHistory(table, row, k) ==
  IF k = 0 THEN Append(table, row)
  ELSE IF /\ table[k].ticker = row.ticker
          /\ table[k].period_end = row.period_end
          /\ table[k].timeframe = row.timeframe
          /\ row.timeframe # "none"
       THEN [table EXCEPT ![k] = row]
       ELSE upsertHistory(table, row, k - 1)

\* The rows a table holds for a ticker.
HistoryOf(table, t) ==
  {table[k] : k \in {x \in 1..Len(table) : table[x].ticker = t}}

\* The script before run(): no period stored, no latest row, no scoring run
\* of the date so far.
FundInit ==
  /\ args \in UNION { { [tickers |-> ts, fetched |-> f] :
                            f \in [1..Len(ts) -> Fetched] } :
                        ts \in TickerLists }
  /\ result = [pc |-> "idle", i |-> 0, history |-> <<>>,
               latest |-> [t \in Tickers |-> Null], skipped |-> {},
               scoredAt |-> "never"]
  /\ returned = FALSE
  /\ ZIdle /\ DBInit /\ OInit

\* run(): ensureTables, the list of tickers, then the loop.
run ==
  /\ result.pc = "idle"
  /\ result' = [result EXCEPT !.pc = "loop"]
  /\ UNCHANGED <<args, returned, zvars, dbvars, ovars>>

\* await updateOneTicker(t) for the next ticker of the list.  Nothing
\* fetched: logged, skipped.  Otherwise writeHistory and
\* computeTTMAndWriteLatest; a value that cannot be bound makes
\* upsertHistory.run throw, the transaction rolls back, and the rejection
\* reaches run().catch: process.exit(1).
updateOneTicker ==
  /\ result.pc = "loop"
  /\ result.i < Len(args.tickers)
  /\ LET t == args.tickers[result.i + 1]
         f == args.fetched[result.i + 1]
         table == upsertHistory(result.history,
                    [ticker |-> t] @@
                      HistoryRow(f.p, IF f.kind = "ok" THEN "quarterly" ELSE "none", f.v),
                    Len(result.history))
     IN result' =
          IF f.kind \in {"none", "nodate"}
          THEN [result EXCEPT !.i = @ + 1, !.skipped = @ \cup {result.i + 1}]
          ELSE IF f.kind = "bad"
          THEN [result EXCEPT !.pc = "exit1"]
          ELSE [result EXCEPT !.i = @ + 1, !.history = table,
                              !.latest[t] = LatestOf(HistoryOf(table, t))]
  /\ UNCHANGED <<args, returned, zvars, dbvars, ovars>>

\* The loop is over: console.log('Done.').
runDone ==
  /\ result.pc = "loop"
  /\ result.i = Len(args.tickers)
  /\ result' = [result EXCEPT !.pc = "done"]
  /\ returned' = TRUE
  /\ UNCHANGED <<args, zvars, dbvars, ovars>>

\* computeScoresToDb.js of the date reads fundamentals_latest
\* (getFundamentals): autoRunner starts it after the bars are fetched,
\* whatever the fundamentals fetch is doing.
getFundamentals ==
  /\ result.scoredAt = "never"
  /\ result' = [result EXCEPT !.scoredAt = result.pc]
  /\ UNCHANGED <<args, returned, zvars, dbvars, ovars>>

FundNext == run \/ updateOneTicker \/ runDone \/ getFundamentals
SpecFund == FundInit /\ [][FundNext]_vars

\* -------------------------------------------------- the universe snapshot
MaxDays == 3        \* trading days with bars in SpecUniverse

\* SUM(volume) and COUNT(volume) of the bars of ticker t with lo <= date <=
\* hi, as a pair; a null volume is not counted.
RECURSIVE VolumesTo(_, _, _, _)
VolumesTo(bars, t, lo, hi) ==
  IF hi < lo THEN <<Zero, 0>>
  ELSE LET rest == VolumesTo(bars, t, lo, hi - 1)
           rows == {r \in bars : r.date = hi /\ r.ticker = t /\ r.volume # Null}
       IN IF rows = {} THEN rest
          ELSE <<Add(rest[1], (CHOOSE r \in rows : TRUE).volume), rest[2] + 1>>

\* AVG(volume) of a group: NULL when no volume is counted.
SqlAvg(sc) == IF sc[2] = 0 THEN Null ELSE Div(sc[1], F(sc[2]))

\* The query avgVol for ticker t: WHERE date <= latest AND date >= (SELECT
\* MAX(date) FROM daily_bars WHERE date <= latest LIMIT 1).
avgVol(bars, latest, t) ==
  SqlAvg(VolumesTo(bars, t,
                   CHOOSE d \in {r.date : r \in bars} :
                     d <= latest /\ \A r \in bars : r.date <= latest => r.date <= d,
                   latest))

\* daily_bars: for ticker A any of the days 1..MaxDays, each with a missing
\* or a reported volume, and for ticker B the last day or none;
\* reference_tickers: empty, or A with a market cap.
UniverseInit ==
  /\ args \in
       { [bars |-> {[date |-> d, ticker |-> "A", volume |-> v[d]] :
                      d \in {x \in 1..MaxDays : v[x] # Absent}}
                   \cup {[date |-> MaxDays, ticker |-> "B", volume |-> F(1)] :
                           x \in b},
          caps |-> c] :
           v \in [1..MaxDays -> {Absent, Null, F(2), F(4)}],
           b \in SUBSET {1},
           c \in { {}, {[ticker |-> "A", market_cap |-> F(8)]} } }
  /\ result = <<>>
  /\ returned = FALSE
  /\ ZIdle /\ DBInit /\ OInit

\* updateUniverseFromReference.js: exit 1 without bars, exit 2 without
\* reference tickers, else one universe row of the latest date for every
\* ticker with a bar on it.
updateUniverseFromReference ==
  /\ ~returned
  /\ result' =
       IF args.bars = {} THEN [status |-> 1, universe |-> {}]
       ELSE IF args.caps = {} THEN [status |-> 2, universe |-> {}]
       ELSE LET latest == CHOOSE d \in {r.date : r \in args.bars} :
                            \A r \in args.bars : r.date <= d
            IN [status |-> 0,
                universe |->
                  {[date |-> latest, ticker |-> t,
                    market_cap |-> IF \E c \in args.caps : c.ticker = t
                                   THEN (CHOOSE c \in args.caps : c.ticker = t).market_cap
                                   ELSE Null,
                    avg_volume |-> avgVol(args.bars, latest, t)] :
                     t \in {r.ticker : r \in {x \in args.bars : x.date = latest}}}]
  /\ returned' = TRUE
  /\ UNCHANGED <<args, zvars, dbvars, ovars>>

SpecUniverse == UniverseInit /\ [][updateUniverseFromReference]_vars

\* ------------------------------------------ GET /api/scores_filtered/:date
\* A ticker and the parameter q are sequences of characters.
toUpperCase(q) ==
  [i \in 1..Len(q) |-> IF q[i] = "a" THEN "A" ELSE IF q[i] = "b" THEN "B" ELSE q[i]]

\* s LIKE p: % stands for any run of characters, _ for any one character,
\* and letters compare without case.
RECURSIVE Like(_, _)
Like(s, p) ==
  IF p = <<>> THEN s = <<>>
  ELSE IF Head(p) = "%"
       THEN Like(s, Tail(p)) \/ (s # <<>> /\ Like(Tail(s), p))
       ELSE /\ s # <<>>
            /\ (Head(p) = "_" \/ toUpperCase(<<Head(p)>>) = toUpperCase(<<Head(s)>>))
            /\ Like(Tail(s), Tail(p))

\* x >= y in SQL, where a NULL operand makes the comparison not true.
SqlGe(x, y) == x # Null /\ y # Null /\ Sub(x, y).m >= 0

\* scores LEFT JOIN universe ON the date and the ticker: the universe
\* columns are NULL for a score row without a universe row.
LeftJoin(s, un) ==
  {[ticker |-> r.ticker, date |-> r.date, composite |-> r.composite,
    market_cap |-> IF \E u \in un : u.date = r.date /\ u.ticker = r.ticker
                   THEN (CHOOSE u \in un : u.date = r.date /\ u.ticker = r.ticker).market_cap
                   ELSE Null,
    avg_volume |-> IF \E u \in un : u.date = r.date /\ u.ticker = r.ticker
                   THEN (CHOOSE u \in un : u.date = r.date /\ u.ticker = r.ticker).avg_volume
                   ELSE Null] : r \in s}

\* The WHERE clause without its condition on the date.
FilteredAnyDate(joined, date, q, minCap, minVol) ==
  {r \in joined :
     /\ (q = <<>> \/ Like(r.ticker, <<"%">> \o q \o <<"%">>))
     /\ (r.market_cap = Null \/ SqlGe(r.market_cap, minCap))
     /\ (r.avg_volume = Null \/ SqlGe(r.avg_volume, minVol))}

\* The WHERE clause of both statements of the handler.
Filtered(joined, date, q, minCap, minVol) ==
  {r \in joined :
     /\ r.date = date
     /\ (q = <<>> \/ Like(r.ticker, <<"%">> \o q \o <<"%">>))
     /\ (r.market_cap = Null \/ SqlGe(r.market_cap, minCap))
     /\ (r.avg_volume = Null \/ SqlGe(r.avg_volume, minVol))}

RECURSIVE OrderedByComposite(_)
OrderedByComposite(rows) ==
  IF rows = {} THEN <<>>
  ELSE LET top == CHOOSE r \in rows : \A o \in rows : o.composite <= r.composite
       IN <<top>> \o OrderedByComposite(rows \ {top})

\* The score rows are fixed, with distinct composites on a date; the universe
\* row of each ticker of date 1 is absent, without values, or one of two rows.
FilteredInit ==
  /\ args \in
       { [scores |-> {[ticker |-> <<"A">>, date |-> 1, composite |-> 3],
                      [ticker |-> <<"A", "B">>, date |-> 1, composite |-> 2],
                      [ticker |-> <<"B">>, date |-> 1, composite |-> 1],
                      [ticker |-> <<"A", "B">>, date |-> 2, composite |-> 1]},
          universe |-> {[date |-> 1, ticker |-> t, market_cap |-> u[t][1], avg_volume |-> u[t][2]] :
                          t \in {x \in DOMAIN u : u[x] # <<>>}},
          date |-> d, q |-> q, min_mcap |-> c, min_vol |-> v, limit |-> l, offset |-> o] :
           u \in [{<<"A">>, <<"A", "B">>, <<"B">>} ->
                    {<<>>, <<Null, F(3)>>, <<F(1), F(3)>>, <<F(3), F(1)>>}],
           d \in {1, 2},
           q \in {<<>>, <<"a">>, <<"B">>, <<"a", "b">>, <<"_">>, <<"%">>},
           c \in {Zero, F(2)}, v \in {Zero, F(2)},
           l \in {0, 2, 600}, o \in {-1, 0, 1} }
  /\ result = <<>>
  /\ returned = FALSE
  /\ ZIdle /\ DBInit /\ OInit

scores_filtered ==
  /\ ~returned
  /\ LET q == toUpperCase(args.q)
         limit == Max(1, Min(args.limit, 500))
         offset == Max(0, args.offset)
         found == OrderedByComposite(
                    Filtered(LeftJoin(args.scores, args.universe),
                             args.date, q, args.min_mcap, args.min_vol))
     IN result' = [total |-> Len(found),
                   rows |-> SubSeq(found, offset + 1, Min(offset + limit, Len(found)))]
  /\ returned' = TRUE
  /\ UNCHANGED <<args, zvars, dbvars, ovars>>

SpecFiltered == FilteredInit /\ [][scores_filtered]_vars

\* ------------------------------------------------ fetchVXFinancialsPaged
MaxPages == 3       \* pages the upstream holds for one ticker and timeframe

\* What the upstream answers to one request for page u: a body whose results
\* are no array (-1) or an array of 0..2 filings, with a next_url while
\* pages remain, or a failure: 404, 429, another status, or a timeout.
Responses(u) ==
  {[kind |-> "page", results |-> n, next_url |-> x] :
     n \in {-1, 0, 1, 2}, x \in {b \in BOOLEAN : b => u < MaxPages}}
  \cup {[kind |-> k, results |-> -1, next_url |-> FALSE] :
          k \in {"404", "429", "500", "timeout"}}

PagedInit ==
  /\ args = [ticker |-> "A", timeframe |-> "quarterly"]
  /\ result = [pc |-> "idle", url |-> 0, all |-> <<>>]
  /\ returned = FALSE
  /\ ZIdle /\ DBInit /\ OInit

fetchVXFinancialsPaged ==
  /\ result.pc = "idle"
  /\ result' = [pc |-> "get", url |-> 1, all |-> <<>>]
  /\ UNCHANGED <<args, returned, zvars, dbvars, ovars>>

\* One pass of the loop body: the request, and either the try block or the
\* catch block up to its break or its sleep(1000).
axiosGet ==
  /\ result.pc = "get"
  /\ \E r \in Responses(result.url) :
       result' =
         IF r.kind = "page"
         THEN [pc |-> IF r.next_url THEN "get" ELSE "return",
               url |-> IF r.next_url THEN result.url + 1 ELSE 0,
               all |-> result.all \o
                       [i \in 1..Max(0, r.results) |-> <<result.url, i>>]]
         ELSE IF r.kind = "429"
              THEN [result EXCEPT !.pc = "sleep"]
              ELSE [result EXCEPT !.pc = "return"]
  /\ UNCHANGED <<args, returned, zvars, dbvars, ovars>>

\* await sleep(1000); continue: the same url is requested again.
continue ==
  /\ result.pc = "sleep"
  /\ result' = [result EXCEPT !.pc = "get"]
  /\ UNCHANGED <<args, returned, zvars, dbvars, ovars>>

returnAll ==
  /\ result.pc = "return"
  /\ result' = [result EXCEPT !.pc = "done"]
  /\ returned' = TRUE
  /\ UNCHANGED <<args, zvars, dbvars, ovars>>

PagedNext == fetchVXFinancialsPaged \/ axiosGet \/ continue \/ returnAll

\* The event loop resumes the function after every await.
SpecPaged == PagedInit /\ [][PagedNext]_vars /\ WF_vars(PagedNext)

\* -------------------------------------------------- fetchReferenceTickers
MaxRefPages == 2    \* pages of reference tickers the upstream holds
MaxSyncs == 2       \* runs of the reference sync in a behaviour

\* The rows of page u after mapRows, and the url of the page after it (0 for
\* none): two tickers on every page, no ticker on two pages.
PageRows(u) == <<<<u, 1>>, <<u, 2>>>>
PageNextUrl(u) == IF u < MaxRefPages THEN u + 1 ELSE 0

\* MAX_ROWS is <<n>> for --max n and <<>> for Infinity.
BelowMax(total, max) == IF max = <<>> THEN TRUE ELSE total < max[1]

\* The state file is absent at first: readState() then gives next_url null
\* (0) and total 0.  pc is "off" while no process runs.
RefInit ==
  /\ args = [market |-> "stocks"]
  /\ result = [pc |-> "off", url |-> 0, total |-> 0, MAX_ROWS |-> <<>>,
               state |-> [next_url |-> 0, total |-> 0],
               reference_tickers |-> {}, syncs |-> 0]
  /\ returned = FALSE
  /\ ZIdle /\ DBInit /\ OInit

\* Lines 165-167 of a new process started with or without --max.
refStart ==
  /\ result.pc = "off"
  /\ result.syncs < MaxSyncs
  /\ \E max \in {<<>>, <<1>>, <<3>>} :
       result' = [result EXCEPT
                    !.pc = "loop",
                    !.url = IF result.state.next_url # 0
                            THEN result.state.next_url ELSE 1,
                    !.total = result.state.total,
                    !.MAX_ROWS = max,
                    !.syncs = @ + 1]
  /\ UNCHANGED <<args, returned, zvars, dbvars, ovars>>

\* One pass of the loop up to and including tx(batch) and total +=: the
\* request fails (the catch block sleeps and the loop repeats), the page has
\* no rows (break), or the batch is upserted.
refPage ==
  /\ result.pc = "loop"
  /\ result.url # 0 /\ BelowMax(result.total, result.MAX_ROWS)
  /\ \E answer \in {"rows", "empty", "failed"} :
       result' =
         IF answer = "failed" THEN result
         ELSE IF answer = "empty" THEN [result EXCEPT !.url = 0]
         ELSE LET rows == PageRows(result.url)
                  can == IF result.MAX_ROWS = <<>> THEN Len(rows)
                         ELSE Max(0, result.MAX_ROWS[1] - result.total)
                  batch == SubSeq(rows, 1, Min(Len(rows), can))
              IN [result EXCEPT
                    !.pc = "upserted",
                    !.reference_tickers = @ \cup {batch[i] : i \in 1..Len(batch)},
                    !.total = @ + Len(batch)]
  /\ UNCHANGED <<args, returned, zvars, dbvars, ovars>>

\* Lines 179-181: the state is written and the next url chosen.
writeState ==
  /\ result.pc = "upserted"
  /\ result' = [result EXCEPT
                  !.pc = "loop",
                  !.state = [next_url |-> PageNextUrl(result.url),
                             total |-> result.total],
                  !.url = IF PageNextUrl(result.url) # 0
                             /\ BelowMax(result.total, result.MAX_ROWS)
                          THEN PageNextUrl(result.url) ELSE 0]
  /\ UNCHANGED <<args, returned, zvars, dbvars, ovars>>

\* The loop condition fails: process.exit(0).
refExit ==
  /\ result.pc = "loop"
  /\ ~(result.url # 0 /\ BelowMax(result.total, result.MAX_ROWS))
  /\ result' = [result EXCEPT !.pc = "off", !.url = 0, !.total = 0]
  /\ returned' = TRUE
  /\ UNCHANGED <<args, zvars, dbvars, ovars>>

\* The process is interrupted; the table and the state file stay.
refKill ==
  /\ result.pc \in {"loop", "upserted"}
  /\ result' = [result EXCEPT !.pc = "off", !.url = 0, !.total = 0]
  /\ UNCHANGED <<args, returned, zvars, dbvars, ovars>>

RefNext == refStart \/ refPage \/ writeState \/ refExit \/ refKill

SpecRef == RefInit /\ [][RefNext]_vars

\* ------------------------------------------- recomputeScores.js on a table
\* The WHERE clause of the UPDATE without its condition on the date.
UpdateWhereAnyDate(s, funds, date) == funds[s.ticker].has

\* WHERE s.date = '${date}' AND s.ticker = f.ticker: the row s is updated
\* when it is of the date and its ticker has a fundamentals_latest row.
UpdateWhere(s, funds, date) == s.date = date /\ funds[s.ticker].has

\* The UPDATE as it reads, on every row of the table; the close of a ticker
\* comes from px, e is the eps row joined to it.
UpdateScores(table, funds, px, e, date) ==
  {IF UpdateWhere(s, funds, date)
   THEN [s EXCEPT !.cols =
           RecomputeSet(s.cols, funds[s.ticker], px[s.ticker],
                        e,
                        Mul(px[s.ticker], funds[s.ticker].shares_outstanding))]
   ELSE s : s \in table}

\* A scores table over two dates and two tickers: each row is absent, or has
\* no ratios, or has ratios from an earlier run; each ticker has a
\* fundamentals_latest row or none; A has a close on the date, B has none.
RecomputeInit ==
  /\ args \in
       { [scores |-> {[date |-> k[1], ticker |-> k[2], composite |-> F(1),
                       cols |-> ScoresRow(
                         [momentum |-> F(1), volatility |-> F(2), volume |-> F(3),
                          vwap_dev |-> Zero, peg |-> Null],
                         [x \in {"pe", "pb", "ps", "roe", "fcf_yield",
                                 "dividend_yield", "de"} |-> c[k]],
                         c[k], Null)] :
                        k \in {x \in DOMAIN c : c[x] # Absent}},
          funds |-> f, px |-> [A |-> F(3), B |-> Null], history |-> h,
          date |-> d] :
           c \in [{1, 2} \X {"A", "B"} -> {Absent, Null, F(5)}],
           f \in [{"A", "B"} -> {NoFundamentals,
                                  Fd(F(2), F(4), F(2), F(8), F(3), F(1), F(1), F(2))}],
           h \in {{}, {Period(60, F(2)), Period(24, F(1))}},
           d \in {1, 2} }
  /\ result = <<>>
  /\ returned = FALSE
  /\ ZIdle /\ DBInit /\ OInit

\* main: compute(date).  db.exec rejects the statement as shipped (the
\* operator **) and the script ends with the exception; with ** read as the
\* power it is written for, the UPDATE runs.
recomputeMain ==
  /\ ~returned
  /\ \E outcome \in {"throws", "updates"}, e \in eps(args.history) :
       result' = [outcome |-> outcome,
                  scores |-> IF outcome = "throws" THEN args.scores
                             ELSE UpdateScores(args.scores, args.funds, args.px,
                                               e, args.date)]
  /\ returned' = TRUE
  /\ UNCHANGED <<args, zvars, dbvars, ovars>>

SpecRecompute == RecomputeInit /\ [][recomputeMain]_vars

\* ------------------------------------------------------------- properties
\* C1: the score write of a run is all-or-nothing.  While a run for a date
\* is in its transaction, and after it has ended, the rows of that date that
\* any reader sees are those from before the run or those with every row of
\* the run written; a run that did not end with exit 0 left the former.
C1_AllOrNothing ==
  proc.pc \in {"tx", "done"} =>
    /\ \/ WhereDate(scores, proc.date) = WhereDate(proc.before, proc.date)
       \/ WhereDate(scores, proc.date) =
            WhereDate(ApplyTo(proc.before, proc.rows, Len(proc.rows)), proc.date)
    /\ (proc.pc = "done" /\ proc.status # "0") => scores = proc.before
    /\ (proc.pc = "done" /\ proc.status = "0") =>
          scores = ApplyTo(proc.before, proc.rows, Len(proc.rows))

\* A run of two or more rows that failed or was killed after at least one
\* upsert.run, the table being as before the run.
C1_Witness ==
  /\ proc.pc = "done"
  /\ proc.status \in {"1", "killed"}
  /\ Len(proc.rows) >= 2
  /\ proc.i >= 1
  /\ proc.i < Len(proc.rows)
  /\ scores = proc.before

\* C2: a scoring run for a date without any daily bar reports failure to
\* its caller (an exit status other than 0) and persists no score row.
C2_NoBarsIsFailure ==
  (proc.pc = "done" /\ Len(proc.bars) = 0) =>
    /\ proc.status # "0"
    /\ scores = proc.before

\* C3: under the scheduler, no autoRunner run for a date is started while
\* an earlier one for that date is still executing: no two spawned jobs
\* with the same date are unfinished at once.
Executing(job) == job.st[3] \notin Exits

C3_NoConcurrentRuns ==
  \A i \in 1..Len(jobs) : \A j \in 1..Len(jobs) :
    (i < j /\ jobs[i].today = jobs[j].today) =>
      ~(Executing(jobs[i]) /\ Executing(jobs[j]))

\* C4: fetch precedes score.  In every autoRunner job and on every day of a
\* backfill, the scoring step has been started only if the fetch step of the
\* same run has exited.
C4_FetchBeforeScore ==
  /\ \A j \in 1..Len(jobs) :
       jobs[j].st[2] # "notstarted" => jobs[j].st[1] \in Exits
  /\ backfill.st[2] # "notstarted" => backfill.st[1] \in Exits

\* An autoRunner job and a backfill day both in their scoring step.
C4_Witness ==
  /\ \E j \in 1..Len(jobs) : jobs[j].st[2] = "running"
  /\ backfill.st[2] = "running"

C6_OtherDatesUnchanged ==
  [][\A r \in (scores \ scores') \cup (scores' \ scores) : r.date = proc.date]_vars

\* A run for a date has committed rows while rows of another date, written
\* before it, are in the table.
C6_Witness ==
  /\ proc.pc = "done"
  /\ proc.status = "0"
  /\ \E r \in scores : r.date = proc.date /\ r \notin proc.before
  /\ \E r \in scores : r.date # proc.date /\ r \in proc.before

\* C7: for a run that read a weights file, a factor whose key the file does
\* not hold contributes 0 to the composite of every ticker.
C7_AbsentKeyWeighsZero ==
  (proc.pc \in {"tx", "done"} /\ proc.file.ok) =>
    \A t \in 1..Len(Factors) : \A i \in 1..Len(proc.rows) :
      proc.file.map[Factors[t][3]] = Absent => Term(proc.z, proc.weights, i, t) = Zero

\* C8: every row of the scores table has a composite that is a number, and
\* so has every row a run is going to write, whatever its ratios; no run
\* fails on the NOT NULL constraint of composite.
C8_CompositeNotNull ==
  /\ \A r \in scores : r.composite.k = "num"
  /\ \A k \in 1..Len(proc.rows) : proc.rows[k].composite.k = "num"
  /\ proc.cause # "constraint"

\* A stored row with null ratios and a composite other than zero.
C8_Witness ==
  \E r \in scores : r.pe = Null /\ r.roe = Null /\ r.composite.k = "num" /\ r.composite # Zero

\* C9: after a scoring run that ended with exit 0 on a date with bars, every
\* ticker with a bar has a score row of that date, whose ratios are all null
\* when the ticker has no fundamentals; and a run that failed did not fail on
\* a value it computed.
C9_MissingFundamentalsKept ==
  /\ (proc.pc = "done" /\ proc.status = "0" /\ Len(proc.bars) > 0) =>
       \A j \in 1..Len(proc.bars) :
         /\ HasRow(scores, proc.date, proc.bars[j].ticker)
         /\ ~proc.funds[j].has =>
              \A f \in {"pe", "pb", "de", "fcf_yield", "peg", "ps", "roe", "dividend_yield"} :
                RowOf(scores, proc.date, proc.bars[j].ticker)[f] = Null
  /\ (proc.pc = "done" /\ proc.status = "1") => proc.cause = "io"

\* A committed run over several bars, one of a ticker without fundamentals.
C9_Witness ==
  /\ proc.pc = "done"
  /\ proc.status = "0"
  /\ Len(proc.bars) >= 2
  /\ \E j \in 1..Len(proc.bars) :
       ~proc.funds[j].has /\ HasRow(scores, proc.date, proc.bars[j].ticker)
  /\ \E j \in 1..Len(proc.bars) : proc.funds[j].has

\* C10: for an input whose values are all identical, zScores returns as
\* many zeros as the input has values.
C10_IdenticalGiveZeros ==
  (zdone /\ AllSame(zin)) => zout = ZerosTo(Len(zin))

\* C11 as stated: after permuting the bars of a date and scoring again,
\* every ticker has exactly the composite it had before.
C11_SameCompositeAnyOrder ==
  returned =>
    \A i \in 1..Len(args.bars) :
      /\ result.second.rows[i].ticker = result.first.rows[args.perm[i]].ticker
      /\ result.second.rows[i].composite = result.first.rows[args.perm[i]].composite

\* The per-factor arrays of the bars as read and of the permuted bars.
ColumnsFirst == Arrays(MetricsTo(args.bars, args.prev, args.funds, Len(args.bars)))
ColumnsSecond ==
  Arrays(MetricsTo(PermuteTo(args.bars, args.perm, Len(args.bars)), PermuteTo(args.prev, args.perm, Len(args.bars)),
                   PermuteTo(args.funds, args.perm, Len(args.bars)), Len(args.bars)))

\* Every array has the same computed mean and variance in both orders (the
\* two reductions of zScores rounded alike).
SameMoments ==
  \A t \in 1..Len(Factors) :
    /\ Mean(ColumnsSecond[t]) = Mean(ColumnsFirst[t])
    /\ Variance(ColumnsSecond[t], Mean(ColumnsSecond[t]))
         = Variance(ColumnsFirst[t], Mean(ColumnsFirst[t]))

\* C11 amended: when the sums of zScores round alike in both orders, every
\* ticker has exactly the composite it had before the permutation.
C11_SameCompositeSameMoments ==
  (returned /\ SameMoments) => C11_SameCompositeAnyOrder

\* A permutation that moves every ticker, sums that round alike, and two
\* tickers with different composites.
C11_Witness ==
  /\ returned
  /\ SameMoments
  /\ \A i \in 1..Len(args.bars) : args.perm[i] # i
  /\ result.first.rows[1].composite # result.first.rows[2].composite
  /\ result.first.rows[1].composite # Zero

\* C12: every ranking of a date is in non-increasing composite order, and
\* two rankings of the same unchanged rows obtained the same way list the
\* rows, tied ones included, in the same order.
C12_StableRanking ==
  \A r \in 1..Len(result) :
    /\ \A i \in 1..Len(args.rows) : \A j \in 1..Len(args.rows) :
         i < j => ~Gt0(Sub(args.rows[result[r].order[j]].composite,
                           args.rows[result[r].order[i]].composite))
    /\ \A q \in 1..Len(result) :
         result[q].by = result[r].by => result[q].order = result[r].order

\* C13: the momentum of a ticker is (close - close_7d)/close_7d when a close
\* from 7 days earlier exists; otherwise (close - open)/open when open is
\* not 0; otherwise 0; it is never null.  (A zero close 7 days earlier and a
\* missing open, where the quotients of the claim are undefined, are left
\* open.)
C13_MomentumFallbacks ==
  Len(result) >= 1 =>
    /\ IsNum(result[1].momentum)
    /\ Truthy(args.prev) =>
         result[1].momentum = Change(OrZero(args.bar.close), args.prev)
    /\ (args.prev = Null /\ IsNum(args.bar.open) /\ args.bar.open # Zero) =>
         result[1].momentum = Change(OrZero(args.bar.close), args.bar.open)
    /\ (args.prev = Null /\ args.bar.open = Zero) =>
         result[1].momentum = Zero

C15_NoEquityNoRatios ==
  (IsNum(args.f.shareholders_equity) /\ ~Gt0(args.f.shareholders_equity)) =>
    \A i \in 1..Len(result) : result[i].pb = Null /\ result[i].de = Null

Window30to42 ==
  {b \in args.history :
     \E a \in args.history :
       /\ \A q \in args.history : q.period_end <= a.period_end
       /\ a.period_end - 42 <= b.period_end
       /\ b.period_end <= a.period_end - 30}

Quarterly == {r \in args.history : r.timeframe = "quarterly"}
FourMostRecent ==
  {r \in Quarterly :
     Cardinality({x \in Quarterly : x.period_end > r.period_end}) < 4}

\* The sum of a field over a set of periods, a missing value counting 0.
RECURSIVE SumOver(_, _)
SumOver(rows, key) ==
  IF rows = {} THEN Zero
  ELSE LET r == CHOOSE x \in rows : TRUE
       IN Add(OrZero(r[key]), SumOver(rows \ {r}, key))

\* C19: each TTM flow field of the fundamentals_latest row (revenue, net
\* income, operating cash flow, capex, dividends) is the sum of that field
\* over the four most recent quarterly periods by period_end, and all of
\* them are null when the ticker has no quarterly period.
C19_TTMOverFourQuarters ==
  returned =>
    IF Quarterly = {}
    THEN /\ result.revenue = Null /\ result.net_income = Null
         /\ result.op_cash = Null /\ result.capex = Null
         /\ result.dividends = Null
    ELSE /\ result.revenue = SumOver(FourMostRecent, "revenue")
         /\ result.net_income = SumOver(FourMostRecent, "net_income")
         /\ result.op_cash = SumOver(FourMostRecent, "operating_cash_flow")
         /\ result.capex = SumOver(FourMostRecent, "capital_expenditures")
         /\ result.dividends = SumOver(FourMostRecent, "dividends")

\* A row computed from five quarters, the oldest with a revenue, one of the
\* later ones without, and an annual period.
C19_Witness ==
  /\ returned
  /\ Cardinality(Quarterly) = 5
  /\ \E r \in Quarterly \ FourMostRecent : Truthy(r.revenue)
  /\ \E r \in FourMostRecent : r.revenue = Null
  /\ \E r \in FourMostRecent : Truthy(r.revenue)
  /\ args.history # Quarterly

\* C20: shares_outstanding, shareholders_equity and total_liabilities of the
\* fundamentals_latest row are those of the period with the greatest
\* period_end among all stored periods of the ticker, quarterly or annual.
C20_PointInTimeFromLatestPeriod ==
  (returned /\ args.history # {}) =>
    \E r \in args.history :
      /\ \A q \in args.history : q.period_end <= r.period_end
      /\ result.shares_outstanding = r.shares_outstanding
      /\ result.shareholders_equity = r.shareholders_equity
      /\ result.total_liabilities = r.total_liabilities

\* C21: in a fundamentals fetch over a list of tickers no malformed or
\* absent filing and no failure while processing one ticker aborts the run:
\* the run ends only after every ticker of the list has been processed.
C21_NoTickerAbortsTheRun ==
  (args # <<>> /\ result.pc \in {"done", "exit1"}) =>
    result.i = Len(args.tickers)

\* Two stored periods with the same ticker, period_end and timeframe.
SameKey(r, q) ==
  r.ticker = q.ticker /\ r.period_end = q.period_end /\ r.timeframe = q.timeframe

\* C22: fundamentals_history is append-only and keyed by (ticker,
\* period_end, timeframe): it never holds two rows with one key, the row of
\* a key holds the values of the latest fetch of that key, and no stored key
\* is ever removed.
C22_HistoryKeyedAppendOnly ==
  /\ [](args # <<>> =>
          /\ \A j \in 1..Len(result.history) : \A k \in 1..Len(result.history) :
               SameKey(result.history[j], result.history[k]) => j = k
          /\ \A i \in 1..result.i :
               (/\ args.fetched[i].kind \in {"ok", "notf"}
                /\ \A n \in (i + 1)..result.i :
                     ~(/\ args.tickers[n] = args.tickers[i]
                       /\ args.fetched[n].kind = args.fetched[i].kind
                       /\ args.fetched[n].p = args.fetched[i].p)) =>
                 \E k \in 1..Len(result.history) :
                   /\ result.history[k].ticker = args.tickers[i]
                   /\ result.history[k].period_end = args.fetched[i].p
                   /\ result.history[k].revenue = args.fetched[i].v)
  /\ [][args # <<>> =>
          \A k \in 1..Len(result.history) :
            \E j \in 1..Len(result.history') :
              SameKey(result.history[k], result.history'[j])]_vars

\* C25: the factor computation of a date is invoked, and reads
\* fundamentals_latest, only after the fundamentals derivation has completed
\* for every ticker: never while it has not started or is in progress.
C25_DerivationBeforeFactors ==
  (args # <<>> /\ result.scoredAt # "never") => result.scoredAt = "done"

\* C26: in every autoRunner run the three steps are each started exactly
\* once and in order (a step is started only after the one before it has
\* exited, and never again), and a step that exited with a non-zero status
\* holds nothing up: the step after it can still be started.
C26_StepsOnceInOrderDespiteFailure ==
  /\ [](\A j \in 1..Len(jobs) : \A k \in 1..3 :
          /\ (k > 1 /\ jobs[j].st[k] # "notstarted") =>
               jobs[j].st[k - 1] \in Exits
          /\ (jobs[j].st[k] = "notstarted"
              /\ (k = 1 \/ jobs[j].st[k - 1] \in Exits)) =>
               ENABLED autoRunnerStep(j, k))
  /\ [][\A j \in 1..Len(jobs) : \A k \in 1..3 :
          /\ jobs[j].st[k] \in Exits => jobs'[j].st[k] = jobs[j].st[k]
          /\ jobs[j].st[k] = "running" => jobs'[j].st[k] # "notstarted"
          /\ jobs[j].st[k] = "notstarted" => jobs'[j].st[k] \notin Exits]_vars

\* An autoRunner run whose first two steps failed and whose third step has
\* exited.
C26_Witness ==
  \E j \in 1..Len(jobs) :
    /\ jobs[j].st[1] = "exit1"
    /\ jobs[j].st[2] = "exit1"
    /\ jobs[j].st[3] \in Exits

\* C27: a backfill processes every weekday of its range in ascending order,
\* and a failure to fetch or compute for one day does not end it: when the
\* backfill is over, every weekday has been processed and the universe
\* refresh has run.
C27_BackfillSurvivesFailures ==
  /\ \A i \in 1..Len(backfill.days) : \A j \in 1..Len(backfill.days) :
       i < j => backfill.days[i] < backfill.days[j]
  /\ backfill.pc = "done" =>
       /\ backfill.k > Len(backfill.days)
       /\ backfill.st[3] \in Exits

\* The first of the TradingDays most recent days with bars up to day d.
TradingDays == 20
WindowStart(d) ==
  CHOOSE lo \in {r.date : r \in args.bars} :
    /\ lo <= d
    /\ Cardinality({x \in {r.date : r \in args.bars} : lo < x /\ x <= d}) < TradingDays
    /\ \A y \in {r.date : r \in args.bars} :
         (y < lo) =>
           Cardinality({x \in {r.date : r \in args.bars} : y < x /\ x <= d}) >= TradingDays

\* C23: the avg_volume of a universe row for (date, ticker) is the average
\* of the ticker's volume over the 20 most recent trading days up to and
\* including the date.
C23_AvgVolumeOver20Days ==
  returned =>
    \A u \in result.universe :
      u.avg_volume =
        SqlAvg(VolumesTo(args.bars, u.ticker, WindowStart(u.date), u.date))

\* q occurs in ticker t, letters compared without case.
Contains(t, q) ==
  \E i \in 0..Len(t) :
    /\ i + Len(q) <= Len(t)
    /\ \A j \in 1..Len(q) : toUpperCase(<<q[j]>>) = toUpperCase(<<t[i + j]>>)

\* The universe values of a score row, if it has any.
CapOf(r) ==
  {u.market_cap : u \in {x \in args.universe : x.date = r.date /\ x.ticker = r.ticker}} \ {Null}
VolOf(r) ==
  {u.avg_volume : u \in {x \in args.universe : x.date = r.date /\ x.ticker = r.ticker}} \ {Null}
MeetsFilters(r) ==
  /\ r.date = args.date
  /\ Contains(r.ticker, args.q)
  /\ \E c \in CapOf(r) : Sub(c, args.min_mcap).m >= 0
  /\ \E v \in VolOf(r) : Sub(v, args.min_vol).m >= 0

PassesFilters(r) ==
  /\ r.date = args.date
  /\ Like(r.ticker, <<"%">> \o args.q \o <<"%">>)
  /\ \A c \in CapOf(r) : Sub(c, args.min_mcap).m >= 0
  /\ \A v \in VolOf(r) : Sub(v, args.min_vol).m >= 0

C28_PagingTerminates == <>returned

\* C29: in the reference sync the running total does not exceed MAX_ROWS
\* after a processed page, the total of the persisted state is the number of
\* rows upserted since the first page, and the page the sync continues at,
\* in the running process or by the persisted next_url, has no page before
\* it with a row that was not upserted (between two passes of the loop and
\* while no process runs).
C29_StateDescribesCommittedPages ==
  /\ (result.pc = "upserted" /\ result.MAX_ROWS # <<>>) =>
       result.total <= result.MAX_ROWS[1]
  /\ result.pc # "upserted" =>
       /\ result.state.total = Cardinality(result.reference_tickers)
       /\ \A u \in {result.state.next_url} \cup
                   {x \in {result.url} : result.pc = "loop"} :
            \A p \in 1..(u - 1) :
              \A i \in 1..Len(PageRows(p)) : PageRows(p)[i] \in result.reference_tickers

\* The columns recomputeScores may write.
RatioColumns == {"pe", "pb", "ps", "roe", "fcf_yield", "dividend_yield", "de", "peg3"}
KeptColumns == {"momentum", "volatility", "volume", "vwap_dev", "peg"}

\* C30: recomputeScores for date D changes only the ratio columns of score
\* rows of date D whose ticker has a fundamentals_latest row; composite,
\* momentum, volatility, volume, vwap_dev and peg of those rows and every
\* column of every other row stay as they were, and no row is inserted or
\* deleted.
C30_RecomputeChangesOnlyRatiosOfTheDate ==
  returned =>
    /\ Cardinality(result.scores) = Cardinality(args.scores)
    /\ \A b \in args.scores :
         \E a \in result.scores :
           /\ a.date = b.date /\ a.ticker = b.ticker
           /\ a.composite = b.composite
           /\ \A c \in KeptColumns : a.cols[c] = b.cols[c]
           /\ (b.date # args.date \/ ~args.funds[b.ticker].has) =>
                \A c \in RatioColumns : a.cols[c] = b.cols[c]

C30_Witness ==
  /\ returned
  /\ \E b \in args.scores : b.date # args.date
  /\ \E b \in args.scores : b.date = args.date /\ ~args.funds[b.ticker].has
  /\ \E b \in args.scores : \E a \in result.scores :
       /\ a.date = b.date /\ a.ticker = b.ticker
       /\ a.cols.pe # b.cols.pe /\ a.cols.peg3 # b.cols.peg3

====
